---- MODULE Spec2Model ----
(***************************************************************************)
(* Model of block_triangularize (parker_cce2022/common/incidence_analysis/ *)
(* triangularize.py): the permutation of a square sparse matrix with a     *)
(* perfect matching to block-lower-triangular form.                        *)
(*                                                                         *)
(* One call of the function is a sequential process; pc is its position.   *)
(* Python lists are sequences (list index k is sequence index k+1), dicts  *)
(* are functions on their key set, a graph is the function from each node  *)
(* to the sequence of its successors in insertion order (networkx keeps    *)
(* adjacency in insertion order).                                          *)
(***************************************************************************)
EXTENDS Integers, Sequences, FiniteSets, TLC

\* Largest number of rows and of columns of the matrices that are enumerated.
MaxN == 3

VARIABLES
    pc,             \* position of the call
    matrix,         \* argument: [shape |-> <<M, N>>, nz |-> set of <<row, col>>]
    matching_arg,   \* argument: [is_none |-> BOOLEAN, items |-> dict row -> col]
    matching,       \* local `matching` once lines 47-48 have run
    provider_calls, \* number of calls of maximum_matching
    bg,             \* bipartite graph of rows 0..M-1 and columns M..M+N-1
    dg,             \* directed graph of rows
    scc_list,       \* list of sets of rows
    node_scc_map,   \* row -> index into scc_list
    dag,            \* directed graph of SCC indices
    scc_order,      \* list of SCC indices in topological order
    scc_block_map,  \* SCC index -> block index
    row_block_map,  \* row -> block index
    dag_ll,         \* list (by block) of lists of block indices
    col_row_map,    \* column -> row
    col_block_map,  \* column -> block index
    exc,            \* the exception raised, [type, site, msg]
    ret,            \* the returned tuple, <<>> while nothing is returned
    parked,         \* the arguments, locals and outcome of the other call
    solved          \* the blocks a sequential-modular executor has solved

vars == <<pc, matrix, matching_arg, matching, provider_calls, bg, dg, scc_list,
          node_scc_map, dag, scc_order, scc_block_map, row_block_map, dag_ll,
          col_row_map, col_block_map, exc, ret, parked, solved>>

\* What is not part of the running call: the call that does not run, and
\* the executor that consumes a result.
sched == <<parked, solved>>

locals == <<bg, dg, scc_list, node_scc_map, dag, scc_order, scc_block_map,
            row_block_map, dag_ll, col_row_map, col_block_map>>

----------------------------------------------------------------------------
(* Generic helpers for Python containers *)

Min(S) == CHOOSE x \in S : \A y \in S : x <= y

Range(s) == {s[k] : k \in DOMAIN s}

RECURSIVE SortedSeq(_)
\* The elements of a finite set of integers in ascending order.
SortedSeq(S) == IF S = {} THEN <<>> ELSE <<Min(S)>> \o SortedSeq(S \ {Min(S)})

\* `x in list`
InSeq(x, s) == \E k \in 1..Len(s) : s[k] = x

\* G.add_edge(u, v) on an adjacency whose nodes all exist: a repeated edge
\* is not stored twice.
AddEdge(g, u, v) == IF InSeq(v, g[u]) THEN g ELSE [g EXCEPT ![u] = Append(@, v)]

\* The empty dict / not yet assigned local.
Empty == <<>>

NoExc == [type |-> "", site |-> "", msg |-> ""]

\* RaiseType with `raise ValueError` in place of the assert statement.
RaiseTypeAllValueError ==
    [shape |-> "ValueError",
     matching |-> "ValueError",
     assert |-> "ValueError",
     topological_sort |-> "NetworkXUnfeasible"]

\* The exception class raised at each place that raises: the two `raise
\* ValueError` statements, the assert statement, and the topological sort.
RaiseType ==
    [shape |-> "ValueError",
     matching |-> "ValueError",
     assert |-> "AssertionError",
     topological_sort |-> "NetworkXUnfeasible"]

\* The text of the exception raised at each place.
RaiseMsg ==
    [shape |-> "block_triangularize does not currently support non-square matrices",
     matching |-> "block_triangularize only supports matrices that have a perfect matching of rows and columns",
     assert |-> "",
     topological_sort |-> "Graph contains a cycle or graph changed during iteration"]

Raise(site) == [type |-> RaiseType[site], site |-> site, msg |-> RaiseMsg[site]]

----------------------------------------------------------------------------
(* Arguments *)

Rows(mx) == 0..(mx.shape[1] - 1)
Cols(mx) == 0..(mx.shape[2] - 1)

\* Every sparse matrix pattern with 1..MaxN rows and 1..MaxN columns.
Matrices ==
    UNION {{[shape |-> <<m, n>>, nz |-> z] :
              z \in SUBSET ((0..(m - 1)) \X (0..(n - 1)))} :
           m \in 1..MaxN, n \in 1..MaxN}

\* Every dict whose keys are rows of the matrix and whose values are columns
\* of the matrix: perfect matchings, matchings that miss rows, and dicts
\* that send two rows to one column.
Dicts(mx) == UNION {[K -> Cols(mx)] : K \in SUBSET Rows(mx)}

MatchingArgs(mx) ==
    {[is_none |-> TRUE, items |-> Empty]} \cup
    {[is_none |-> FALSE, items |-> d] : d \in Dicts(mx)}

\* len(dict)
DictLen(d) == Cardinality(DOMAIN d)

----------------------------------------------------------------------------
\* A call that has not started: its frame holds nothing.
IdleContext ==
    [pc |-> "idle", matrix |-> [shape |-> <<0, 0>>, nz |-> {}],
     matching_arg |-> [is_none |-> TRUE, items |-> Empty], matching |-> Empty,
     provider_calls |-> 0, bg |-> Empty, dg |-> Empty, scc_list |-> Empty,
     node_scc_map |-> Empty, dag |-> Empty, scc_order |-> Empty,
     scc_block_map |-> Empty, row_block_map |-> Empty, dag_ll |-> Empty,
     col_row_map |-> Empty, col_block_map |-> Empty, exc |-> NoExc,
     ret |-> Empty]

Init ==
    /\ pc = "idle"
    /\ matrix = [shape |-> <<0, 0>>, nz |-> {}]
    /\ matching_arg = [is_none |-> TRUE, items |-> Empty]
    /\ matching = Empty
    /\ provider_calls = 0
    /\ bg = Empty /\ dg = Empty /\ scc_list = Empty /\ node_scc_map = Empty
    /\ dag = Empty /\ scc_order = Empty /\ scc_block_map = Empty
    /\ row_block_map = Empty /\ dag_ll = Empty /\ col_row_map = Empty
    /\ col_block_map = Empty
    /\ exc = NoExc
    /\ ret = Empty
    /\ parked = IdleContext
    /\ solved = {}

\* block_triangularize(matrix, matching=None) is called.
Call ==
    /\ pc = "idle"
    /\ UNCHANGED sched
    /\ \E mx \in Matrices : \E ma \in MatchingArgs(mx) :
          /\ matrix' = mx
          /\ matching_arg' = ma
          /\ matching' = ma.items
    /\ pc' = "check_shape"
    /\ UNCHANGED <<provider_calls, locals, exc, ret>>

\* from_biadjacency_matrix(matrix): row r is node r, column c is node M + c,
\* one edge per stored entry, generated in row-major order.
from_biadjacency_matrix(mx) ==
    LET M == mx.shape[1]
        N == mx.shape[2]
    IN  [node \in 0..(M + N - 1) |->
            IF node < M
            THEN SortedSeq({M + c : c \in {c \in Cols(mx) : <<node, c>> \in mx.nz}})
            ELSE SortedSeq({r \in Rows(mx) : <<r, node - M>> \in mx.nz})]

\* CheckShape with the test `M > N`: a matrix with more columns than rows
\* passes.
CheckShapeOnlyTall ==
    /\ pc = "check_shape"
    /\ UNCHANGED sched
    /\ IF matrix.shape[1] > matrix.shape[2]
       THEN /\ pc' = "raised"
            /\ exc' = Raise("shape")
            /\ UNCHANGED bg
       ELSE /\ pc' = "get_matching"
            /\ bg' = from_biadjacency_matrix(matrix)
            /\ UNCHANGED exc
    /\ UNCHANGED <<matrix, matching_arg, matching, provider_calls, dg, scc_list,
                   node_scc_map, dag, scc_order, scc_block_map, row_block_map,
                   dag_ll, col_row_map, col_block_map, ret>>

\* Lines 39-45: the shape check, then the bipartite graph.
CheckShape ==
    /\ pc = "check_shape"
    /\ UNCHANGED sched
    /\ IF matrix.shape[1] # matrix.shape[2]
       THEN /\ pc' = "raised"
            /\ exc' = Raise("shape")
            /\ UNCHANGED bg
       ELSE /\ pc' = "get_matching"
            /\ bg' = from_biadjacency_matrix(matrix)
            /\ UNCHANGED exc
    /\ UNCHANGED <<matrix, matching_arg, matching, provider_calls, dg, scc_list,
                   node_scc_map, dag, scc_order, scc_block_map, row_block_map,
                   dag_ll, col_row_map, col_block_map, ret>>

\* A matching of the matrix: rows paired with columns they reference, no
\* column paired twice.
IsMatchingOf(d, mx) ==
    /\ \A r \in DOMAIN d : <<r, d[r]>> \in mx.nz
    /\ \A r1, r2 \in DOMAIN d : d[r1] = d[r2] => r1 = r2

\* maximum_matching(matrix): a dict row -> col of maximum cardinality. Which
\* of the maximum matchings is returned is the provider's choice.
maximum_matching(mx) ==
    LET ms == {d \in Dicts(mx) : IsMatchingOf(d, mx)}
    IN  {d \in ms : \A e \in ms : DictLen(e) <= DictLen(d)}

\* GetMatching without the test `matching is None`: the provider is asked
\* also when a matching was passed.
GetMatchingAlways ==
    /\ pc = "get_matching"
    /\ UNCHANGED sched
    /\ \E d \in maximum_matching(matrix) : matching' = d
    /\ provider_calls' = provider_calls + 1
    /\ pc' = "check_matching"
    /\ UNCHANGED <<matrix, matching_arg, locals, exc, ret>>

\* Lines 47-48: a matching is computed when none was passed.
GetMatching ==
    /\ pc = "get_matching"
    /\ UNCHANGED sched
    /\ IF matching_arg.is_none
       THEN /\ \E d \in maximum_matching(matrix) : matching' = d
            /\ provider_calls' = provider_calls + 1
       ELSE UNCHANGED <<matching, provider_calls>>
    /\ pc' = "check_matching"
    /\ UNCHANGED <<matrix, matching_arg, locals, exc, ret>>

\* CheckMatching with the test `len_matching > M`: a matching that misses
\* rows passes.
CheckMatchingOnlyLarger ==
    /\ pc = "check_matching"
    /\ UNCHANGED sched
    /\ IF DictLen(matching) > matrix.shape[1]
       THEN /\ pc' = "raised"
            /\ exc' = Raise("matching")
       ELSE /\ pc' = "build_dg"
            /\ UNCHANGED exc
    /\ UNCHANGED <<matrix, matching_arg, matching, provider_calls, locals, ret>>

\* CheckMatching with `len(set(matching.values())) != M`: the columns are
\* counted, so a dict that sends two rows to one column is rejected here.
CheckMatchingCountsColumns ==
    /\ pc = "check_matching"
    /\ UNCHANGED sched
    /\ IF Cardinality(Range(matching)) # matrix.shape[1]
       THEN /\ pc' = "raised"
            /\ exc' = Raise("matching")
       ELSE /\ pc' = "build_dg"
            /\ UNCHANGED exc
    /\ UNCHANGED <<matrix, matching_arg, matching, provider_calls, locals, ret>>

\* CheckMatching that also requires every pair of the matching to be an
\* entry of the matrix.
CheckMatchingOnEntries ==
    /\ pc = "check_matching"
    /\ UNCHANGED sched
    /\ IF \/ DictLen(matching) # matrix.shape[1]
          \/ \E r \in DOMAIN matching : <<r, matching[r]>> \notin matrix.nz
       THEN /\ pc' = "raised"
            /\ exc' = Raise("matching")
       ELSE /\ pc' = "build_dg"
            /\ UNCHANGED exc
    /\ UNCHANGED <<matrix, matching_arg, matching, provider_calls, locals, ret>>

\* Lines 50-55: the matching must have as many entries as the matrix has rows.
CheckMatching ==
    /\ pc = "check_matching"
    /\ UNCHANGED sched
    /\ IF DictLen(matching) # matrix.shape[1]
       THEN /\ pc' = "raised"
            /\ exc' = Raise("matching")
       ELSE /\ pc' = "build_dg"
            /\ UNCHANGED exc
    /\ UNCHANGED <<matrix, matching_arg, matching, provider_calls, locals, ret>>

RECURSIVE DgNeighborsUndirected(_, _, _, _)
\* DgNeighbors on an undirected graph (nx.Graph() for nx.DiGraph()): every
\* edge is stored in both directions.
DgNeighborsUndirected(g, n, nbrs, k) ==
    IF k > Len(nbrs) THEN g
    ELSE DgNeighborsUndirected(
             IF nbrs[k] # n THEN AddEdge(AddEdge(g, nbrs[k], n), n, nbrs[k]) ELSE g,
             n, nbrs, k + 1)

RECURSIVE DgNeighborsOnlyLarger(_, _, _, _)
\* DgNeighbors with the test `neighbor > n`.
DgNeighborsOnlyLarger(g, n, nbrs, k) ==
    IF k > Len(nbrs) THEN g
    ELSE DgNeighborsOnlyLarger(IF nbrs[k] > n THEN AddEdge(g, nbrs[k], n) ELSE g,
                               n, nbrs, k + 1)

RECURSIVE DgNeighborsReversed(_, _, _, _)
\* DgNeighbors with dg.add_edge(n, neighbor): the edge leaves the column's
\* matched row.
DgNeighborsReversed(g, n, nbrs, k) ==
    IF k > Len(nbrs) THEN g
    ELSE DgNeighborsReversed(IF nbrs[k] # n THEN AddEdge(g, n, nbrs[k]) ELSE g,
                             n, nbrs, k + 1)

RECURSIVE DgNeighbors(_, _, _, _)
\* Lines 64-67: for neighbor in bg[col_node], from position k on.
DgNeighbors(g, n, nbrs, k) ==
    IF k > Len(nbrs) THEN g
    ELSE DgNeighbors(IF nbrs[k] # n THEN AddEdge(g, nbrs[k], n) ELSE g,
                     n, nbrs, k + 1)

RECURSIVE DgNodesIdentityMatching(_, _, _, _, _)
\* DgNodes with `col_idx = n`: row n is taken to be matched with column n.
DgNodesIdentityMatching(g, n, M, b, mt) ==
    IF n >= M THEN g
    ELSE DgNodesIdentityMatching(DgNeighbors(g, n, b[n + M], 1), n + 1, M, b, mt)

RECURSIVE DgNodesAllRows(_, _, _, _, _)
\* DgNodes with `for neighbor in dg.nodes`: every row is taken to share the
\* column of row n.
DgNodesAllRows(g, n, M, b, mt) ==
    IF n >= M THEN g
    ELSE DgNodesAllRows(DgNeighbors(g, n, SortedSeq(0..(M - 1)), 1), n + 1, M, b, mt)

RECURSIVE DgNodes(_, _, _, _, _)
\* Lines 60-67: for n in dg.nodes, from node n on.
DgNodes(g, n, M, b, mt) ==
    IF n >= M THEN g
    ELSE DgNodes(DgNeighbors(g, n, b[mt[n] + M], 1), n + 1, M, b, mt)

\* Lines 58-67: the directed graph of rows.
RowDigraph(M, b, mt) == DgNodes([n \in 0..(M - 1) |-> <<>>], 0, M, b, mt)

BuildDg ==
    /\ pc = "build_dg"
    /\ UNCHANGED sched
    /\ dg' = RowDigraph(matrix.shape[1], bg, matching)
    /\ pc' = "find_sccs"
    /\ UNCHANGED <<matrix, matching_arg, matching, provider_calls, bg, scc_list,
                   node_scc_map, dag, scc_order, scc_block_map, row_block_map,
                   dag_ll, col_row_map, col_block_map, exc, ret>>

----------------------------------------------------------------------------
(* networkx.strongly_connected_components: Tarjan's algorithm with          *)
(* Nuutila's modifications, non-recursive. preorder 0 stands for "v not in  *)
(* preorder"; pos[v] is the position of the iterator neighbors[v].          *)

RECURSIVE SccLowlink(_, _, _, _, _)
\* for w in G[v]: the lowlink of v, from position k on.
SccLowlink(G, st, v, k, low) ==
    IF k > Len(G[v]) THEN low
    ELSE LET w == G[v][k]
             low1 == IF w \in st.scc_found THEN low
                     ELSE IF st.preorder[w] > st.preorder[v]
                          THEN Min({low, st.lowlink[w]})
                          ELSE Min({low, st.preorder[w]})
         IN  SccLowlink(G, st, v, k + 1, low1)

RECURSIVE SccPop(_, _, _, _)
\* while scc_queue and preorder[scc_queue[-1]] > preorder[v]: pop into scc.
\* The result is <<scc_queue, scc>>.
SccPop(preorder, v, scc_queue, scc) ==
    IF scc_queue # <<>> /\ preorder[scc_queue[Len(scc_queue)]] > preorder[v]
    THEN SccPop(preorder, v, SubSeq(scc_queue, 1, Len(scc_queue) - 1),
                scc \cup {scc_queue[Len(scc_queue)]})
    ELSE <<scc_queue, scc>>

RECURSIVE SccWhile(_, _)
\* while queue: ...
SccWhile(G, st) ==
    IF st.queue = <<>> THEN st
    ELSE
      LET v == st.queue[Len(st.queue)]
          fresh == st.preorder[v] = 0
          i1 == IF fresh THEN st.i + 1 ELSE st.i
          pre1 == IF fresh THEN [st.preorder EXCEPT ![v] = i1] ELSE st.preorder
          unseen == {k \in st.pos[v]..Len(G[v]) : pre1[G[v][k]] = 0}
      IN  IF unseen # {}
          THEN \* a successor not yet visited: descend into it
               SccWhile(G, [st EXCEPT !.i = i1, !.preorder = pre1,
                                      !.pos[v] = Min(unseen) + 1,
                                      !.queue = Append(@, G[v][Min(unseen)])])
          ELSE \* done with v
               LET st1 == [st EXCEPT !.i = i1, !.preorder = pre1,
                                     !.pos[v] = Len(G[v]) + 1]
                   low == SccLowlink(G, st1, v, 1, pre1[v])
                   rest == SubSeq(st.queue, 1, Len(st.queue) - 1)
                   popped == SccPop(pre1, v, st.scc_queue, {v})
               IN  IF low = pre1[v]
                   THEN SccWhile(G, [st1 EXCEPT !.lowlink[v] = low,
                                        !.queue = rest,
                                        !.scc_queue = popped[1],
                                        !.scc_found = @ \cup popped[2],
                                        !.out = Append(@, popped[2])])
                   ELSE SccWhile(G, [st1 EXCEPT !.lowlink[v] = low,
                                        !.queue = rest,
                                        !.scc_queue = Append(@, v)])

RECURSIVE SccSources(_, _, _)
\* for source in G: if source not in scc_found: ...
SccSources(G, st, source) ==
    IF source \notin DOMAIN G THEN st
    ELSE IF source \in st.scc_found THEN SccSources(G, st, source + 1)
    ELSE SccSources(G, SccWhile(G, [st EXCEPT !.queue = <<source>>]), source + 1)

\* list(nxc.strongly_connected_components(G)): the components in the order
\* in which they are yielded.
strongly_connected_components(G) ==
    SccSources(G, [preorder |-> [v \in DOMAIN G |-> 0],
                   lowlink |-> [v \in DOMAIN G |-> 0],
                   scc_found |-> {}, scc_queue |-> <<>>, i |-> 0,
                   pos |-> [v \in DOMAIN G |-> 1],
                   queue |-> <<>>, out |-> <<>>], 0).out

\* Line 71: {n: idx for idx, scc in enumerate(scc_list) for n in scc}; a row
\* in several sets keeps the last index.
NodeSccMap(sl) ==
    [n \in UNION Range(sl) |->
        CHOOSE idx \in 0..(Len(sl) - 1) :
            /\ n \in sl[idx + 1]
            /\ \A j \in 0..(Len(sl) - 1) : n \in sl[j + 1] => j <= idx]

\* Lines 69-71.
FindSccs ==
    /\ pc = "find_sccs"
    /\ UNCHANGED sched
    /\ scc_list' = strongly_connected_components(dg)
    /\ node_scc_map' = NodeSccMap(scc_list')
    /\ pc' = "condense"
    /\ UNCHANGED <<matrix, matching_arg, matching, provider_calls, bg, dg,
                   dag, scc_order, scc_block_map, row_block_map,
                   dag_ll, col_row_map, col_block_map, exc, ret>>

----------------------------------------------------------------------------
(* The DAG of SCCs and its topological order *)

RECURSIVE DagNeighborsNotReversed(_, _, _, _, _)
\* DagNeighbors with dag.add_edge(source_scc, target_scc): the direction of
\* the edge of dg is kept.
DagNeighborsNotReversed(d, G, nsm, n, k) ==
    IF k > Len(G[n]) THEN d
    ELSE LET source_scc == nsm[n]
             target_scc == nsm[G[n][k]]
         IN  DagNeighborsNotReversed(IF target_scc # source_scc
                                     THEN AddEdge(d, source_scc, target_scc)
                                     ELSE d,
                                     G, nsm, n, k + 1)

RECURSIVE DagNeighborsSelfEdges(_, _, _, _, _)
\* DagNeighbors without the test target_scc != source_scc.
DagNeighborsSelfEdges(d, G, nsm, n, k) ==
    IF k > Len(G[n]) THEN d
    ELSE DagNeighborsSelfEdges(AddEdge(d, nsm[G[n][k]], nsm[n]), G, nsm, n, k + 1)

RECURSIVE DagNeighbors(_, _, _, _, _)
\* Lines 80-84: for neighbor in dg[n], from position k on.
DagNeighbors(d, G, nsm, n, k) ==
    IF k > Len(G[n]) THEN d
    ELSE LET source_scc == nsm[n]
             target_scc == nsm[G[n][k]]
         IN  DagNeighbors(IF target_scc # source_scc
                          THEN AddEdge(d, target_scc, source_scc)
                          ELSE d,
                          G, nsm, n, k + 1)

RECURSIVE DagNodes(_, _, _, _)
\* Lines 78-84: for n in dg.nodes, from node n on.
DagNodes(d, G, nsm, n) ==
    IF n \notin DOMAIN G THEN d
    ELSE DagNodes(DagNeighbors(d, G, nsm, n, 1), G, nsm, n + 1)

\* Lines 75-86: one node per SCC, the edges between SCCs reversed.
SccDag(sl, G, nsm) == DagNodes([i \in 0..(Len(sl) - 1) |-> <<>>], G, nsm, 0)

\* G.in_degree(v)
InDegree(d, v) == Cardinality({u \in DOMAIN d : InSeq(v, d[u])})

RECURSIVE TopoChildren(_, _, _, _)
\* for child in G.neighbors(node), from position k on. st is
\* [indegree_map, zero_indegree]; indegree 0 stands for a deleted key.
TopoChildren(d, st, node, k) ==
    IF k > Len(d[node]) THEN st
    ELSE LET child == d[node][k]
             deg == st.indegree_map[child] - 1
         IN  TopoChildren(d,
                 [indegree_map |-> [st.indegree_map EXCEPT ![child] = deg],
                  zero_indegree |-> IF deg = 0
                                    THEN Append(st.zero_indegree, child)
                                    ELSE st.zero_indegree],
                 node, k + 1)

RECURSIVE TopoGeneration(_, _, _, _)
\* for node in this_generation, from position k on.
TopoGeneration(d, st, gen, k) ==
    IF k > Len(gen) THEN st
    ELSE TopoGeneration(d, TopoChildren(d, st, gen[k], 1), gen, k + 1)

RECURSIVE TopoGenerations(_, _, _, _)
\* while zero_indegree: ... yield this_generation. The result is
\* [order, indegree_map].
TopoGenerations(d, indegree_map, zero_indegree, order) ==
    IF zero_indegree = <<>>
    THEN [order |-> order, indegree_map |-> indegree_map]
    ELSE LET st == TopoGeneration(d, [indegree_map |-> indegree_map,
                                      zero_indegree |-> <<>>],
                                  zero_indegree, 1)
         IN  TopoGenerations(d, st.indegree_map, st.zero_indegree,
                             order \o zero_indegree)

\* nxd.topological_sort(dag), as networkx 2.6 and later compute it (by
\* generations of nodes of in-degree zero, each in insertion order):
\* [order, indegree_map]; indegree_map has a non-zero entry left exactly
\* when the graph has a cycle.
topological_sort(d) ==
    TopoGenerations(d, [v \in DOMAIN d |-> InDegree(d, v)],
                    SortedSeq({v \in DOMAIN d : InDegree(d, v) = 0}), <<>>)

\* Lines 75-86.
Condense ==
    /\ pc = "condense"
    /\ UNCHANGED sched
    /\ dag' = SccDag(scc_list, dg, node_scc_map)
    /\ pc' = "topo_sort"
    /\ UNCHANGED <<matrix, matching_arg, matching, provider_calls, bg, dg,
                   scc_list, node_scc_map, scc_order, scc_block_map,
                   row_block_map, dag_ll, col_row_map, col_block_map, exc, ret>>

\* TopoSort with ties broken by an order that changes from call to call
\* (as the iteration order of a set of strings does between processes): any
\* topological order may come out.
TopoSortAnyOrder ==
    /\ pc = "topo_sort"
    /\ UNCHANGED sched
    /\ LET t == topological_sort(dag)
           B == Cardinality(DOMAIN dag)
       IN  IF \E v \in DOMAIN dag : t.indegree_map[v] # 0
           THEN /\ pc' = "raised"
                /\ exc' = Raise("topological_sort")
                /\ UNCHANGED scc_order
           ELSE /\ pc' = "assemble"
                /\ \E so \in [1..B -> DOMAIN dag] :
                      /\ \A i, j \in 1..B : so[i] = so[j] => i = j
                      /\ \A i, j \in 1..B : InSeq(so[j], dag[so[i]]) => i < j
                      /\ scc_order' = so
                /\ UNCHANGED exc
    /\ UNCHANGED <<matrix, matching_arg, matching, provider_calls, bg, dg,
                   scc_list, node_scc_map, dag, scc_block_map,
                   row_block_map, dag_ll, col_row_map, col_block_map, ret>>

\* Lines 88-89: topological_sort raises NetworkXUnfeasible on a cycle.
TopoSort ==
    /\ pc = "topo_sort"
    /\ UNCHANGED sched
    /\ LET t == topological_sort(dag)
       IN  IF \E v \in DOMAIN dag : t.indegree_map[v] # 0
           THEN /\ pc' = "raised"
                /\ exc' = Raise("topological_sort")
                /\ UNCHANGED scc_order
           ELSE /\ pc' = "assemble"
                /\ scc_order' = t.order
                /\ UNCHANGED exc
    /\ UNCHANGED <<matrix, matching_arg, matching, provider_calls, bg, dg,
                   scc_list, node_scc_map, dag, scc_block_map,
                   row_block_map, dag_ll, col_row_map, col_block_map, ret>>

----------------------------------------------------------------------------
(* The block maps *)

\* Line 93: {c: i for i, c in enumerate(scc_order)}
SccBlockMap(so) == [c \in Range(so) |-> CHOOSE i \in 0..(Len(so) - 1) : so[i + 1] = c]

\* RowBlockMap with `{n: c for n, c in node_scc_map.items()}`: the index of
\* the SCC in scc_list is taken for the block index.
RowBlockMapSccIndex(nsm, sbm) == [n \in DOMAIN nsm |-> nsm[n]]

\* Line 94: {n: scc_block_map[c] for n, c in node_scc_map.items()}
RowBlockMap(nsm, sbm) == [n \in DOMAIN nsm |-> sbm[nsm[n]]]

\* DagLL with dag.predecessors(i) for dag[i]: the list of a block holds the
\* blocks with an edge into it.
DagLLPredecessors(d, so, sbm) ==
    [b \in 1..Len(so) |->
        SortedSeq({sbm[j] : j \in {j \in DOMAIN d : InSeq(so[b], d[j])}})]

\* DagLL with nx.all_neighbors(dag, i) for dag[i]: the list of a block
\* holds the blocks at either end of its edges.
DagLLAllNeighbors(d, so, sbm) ==
    [b \in 1..Len(so) |->
        SortedSeq({sbm[j] : j \in {j \in DOMAIN d :
                                      InSeq(so[b], d[j]) \/ InSeq(j, d[so[b]])}})]

\* DagLL with `[j for j in dag[i]]`: the lists hold indices into scc_list,
\* not block indices.
DagLLNotRenumbered(d, so, sbm) ==
    [b \in 1..Len(so) |-> d[so[b]]]

\* Lines 98-101: [[scc_block_map[j] for j in dag[i]] for i in scc_order]
DagLL(d, so, sbm) ==
    [b \in 1..Len(so) |-> [k \in 1..Len(d[so[b]]) |-> sbm[d[so[b]][k]]]]

\* Lines 91-101.
Assemble ==
    /\ pc = "assemble"
    /\ UNCHANGED sched
    /\ scc_block_map' = SccBlockMap(scc_order)
    /\ row_block_map' = RowBlockMap(node_scc_map, scc_block_map')
    /\ dag_ll' = DagLL(dag, scc_order, scc_block_map')
    /\ pc' = "invert"
    /\ UNCHANGED <<matrix, matching_arg, matching, provider_calls, bg, dg,
                   scc_list, node_scc_map, dag, scc_order,
                   col_row_map, col_block_map, exc, ret>>

\* ColRowMaps with `col_row_map = dict(matching)`: the matching is not
\* inverted.
ColRowMapsNotInverted(mt) == {mt}

\* Line 104: {c: r for r, c in matching.items()}. When two rows have the
\* same column the row that is kept is the one the dict lists last, which
\* is the caller's choice.
ColRowMaps(mt) ==
    {crm \in [Range(mt) -> DOMAIN mt] : \A c \in Range(mt) : mt[crm[c]] = c}

\* ColBlockMap with `for c in range(1, N)`.
ColBlockMapFromOne(N, rbm, crm) == [c \in 1..(N - 1) |-> rbm[crm[c]]]

\* Line 107: {c: row_block_map[col_row_map[c]] for c in range(N)}
ColBlockMap(N, rbm, crm) == [c \in 0..(N - 1) |-> rbm[crm[c]]]

\* Invert without the assert statement and with a column map over the
\* columns that have a row: the maps are returned also when columns are
\* missing.
InvertNoAssert ==
    /\ pc = "invert"
    /\ UNCHANGED sched
    /\ \E crm \in ColRowMaps(matching) :
          /\ col_row_map' = crm
          /\ col_block_map' = [c \in DOMAIN crm |-> row_block_map[crm[c]]]
          /\ ret' = <<row_block_map, col_block_map', dag_ll>>
          /\ pc' = "returned"
          /\ UNCHANGED exc
    /\ UNCHANGED <<matrix, matching_arg, matching, provider_calls, bg, dg,
                   scc_list, node_scc_map, dag, scc_order, scc_block_map,
                   row_block_map, dag_ll>>

\* Invert with the inverse built by `r, c = matching.popitem()` until the
\* dict is empty: the dict that was passed is emptied.
InvertPopItems ==
    /\ pc = "invert"
    /\ UNCHANGED sched
    /\ \E crm \in ColRowMaps(matching) :
          /\ col_row_map' = crm
          /\ IF DictLen(crm) # matrix.shape[1]
             THEN /\ pc' = "raised"
                  /\ exc' = Raise("assert")
                  /\ UNCHANGED <<col_block_map, ret>>
             ELSE /\ col_block_map' = ColBlockMap(matrix.shape[2], row_block_map, crm)
                  /\ ret' = <<row_block_map, col_block_map', dag_ll>>
                  /\ pc' = "returned"
                  /\ UNCHANGED exc
    /\ matching' = Empty
    /\ matching_arg' = IF matching_arg.is_none THEN matching_arg
                       ELSE [matching_arg EXCEPT !.items = Empty]
    /\ UNCHANGED <<matrix, provider_calls, bg, dg,
                   scc_list, node_scc_map, dag, scc_order, scc_block_map,
                   row_block_map, dag_ll>>

\* Lines 103-109: the inverse matching, its assertion, the return.
Invert ==
    /\ pc = "invert"
    /\ UNCHANGED sched
    /\ \E crm \in ColRowMaps(matching) :
          /\ col_row_map' = crm
          /\ IF DictLen(crm) # matrix.shape[1]
             THEN /\ pc' = "raised"
                  /\ exc' = Raise("assert")
                  /\ UNCHANGED <<col_block_map, ret>>
             ELSE /\ col_block_map' = ColBlockMap(matrix.shape[2], row_block_map, crm)
                  /\ ret' = <<row_block_map, col_block_map', dag_ll>>
                  /\ pc' = "returned"
                  /\ UNCHANGED exc
    /\ UNCHANGED <<matrix, matching_arg, matching, provider_calls, bg, dg,
                   scc_list, node_scc_map, dag, scc_order, scc_block_map,
                   row_block_map, dag_ll>>

\* Lines 57-109 as one function of the matrix and the matching in use, for
\* a square matrix and a matching that is a bijection: the returned tuple.
block_triangularize(mx, mt) ==
    LET M == mx.shape[1]
        G == RowDigraph(M, from_biadjacency_matrix(mx), mt)
        sl == strongly_connected_components(G)
        nsm == NodeSccMap(sl)
        d == SccDag(sl, G, nsm)
        so == topological_sort(d).order
        sbm == SccBlockMap(so)
        rbm == RowBlockMap(nsm, sbm)
        crm == CHOOSE m \in ColRowMaps(mt) : TRUE
    IN  <<rbm, ColBlockMap(mx.shape[2], rbm, crm), DagLL(d, so, sbm)>>

Next ==
    \/ Call
    \/ CheckShape
    \/ GetMatching
    \/ CheckMatching
    \/ BuildDg
    \/ FindSccs
    \/ Condense
    \/ TopoSort
    \/ Assemble
    \/ Invert

Spec == Init /\ [][Next]_vars
----------------------------------------------------------------------------
(* Vocabulary of the properties, stated on the arguments and the result    *)

NRows == matrix.shape[1]
NCols == matrix.shape[2]

Returned == pc = "returned"
Failed == pc = "raised"

\* The three returned values; block b of the Python list is BlockDag[b + 1].
RetRowBlock == ret[1]
RetColBlock == ret[2]
RetBlockDag == ret[3]

\* The matching is a bijection of the rows onto the columns.
PerfectMatching ==
    /\ DOMAIN matching = Rows(matrix)
    /\ \A r1, r2 \in Rows(matrix) : matching[r1] = matching[r2] => r1 = r2

\* The graph G of rows: u -> v when row u references the column matched to
\* another row v.
GEdge(u, v) == u # v /\ <<u, matching[v]>> \in matrix.nz
GEdges == {e \in Rows(matrix) \X Rows(matrix) : GEdge(e[1], e[2])}

RECURSIVE ReachSet(_, _)
\* The nodes reachable from the set S along the edges E, S included.
ReachSet(E, S) ==
    LET T == S \cup {e[2] : e \in {e \in E : e[1] \in S}}
    IN  IF T = S THEN S ELSE ReachSet(E, T)

Reaches(E, u, v) == v \in ReachSet(E, {u})

\* A relation has no directed cycle: no node is reached from a successor.
Acyclic(E) == \A e \in E : ~Reaches(E, e[2], e[1])

\* The edges of a graph given as node -> list of successors.
EdgesOf(g) == {e \in (DOMAIN g) \X (DOMAIN g) : InSeq(e[2], g[e[1]])}

\* The edges b -> j of the returned list of lists, as block indices.
BlockDagEdges ==
    {e \in (0..(Len(RetBlockDag) - 1)) \X (0..(Len(RetBlockDag) - 1)) :
        InSeq(e[2], RetBlockDag[e[1] + 1])}

\* Row r references column c, which is not its matched column.
OffMatching(r, c) == <<r, c>> \in matrix.nz /\ c # matching[r]

----------------------------------------------------------------------------
(* C1: block-lower-triangular. In every returned result, each nonzero      *)
(* entry (row, col) off the matching has col_block_map[col] <=             *)
(* row_block_map[row]; and each edge p -> q of G has the block of q less   *)
(* than or equal to the block of p.                                        *)
C1_BlockLowerTriangular ==
    Returned =>
        /\ \A r \in Rows(matrix), c \in Cols(matrix) :
              OffMatching(r, c) => RetColBlock[c] <= RetRowBlock[r]
        /\ \A p, q \in Rows(matrix) :
              GEdge(p, q) => RetRowBlock[q] <= RetRowBlock[p]

\* A 3 x 3 result in which an entry off the matching lies strictly below
\* the block diagonal and another entry lies inside a block of two rows.
C1_Witness ==
    /\ Returned
    /\ NRows = 3
    /\ \E r \in Rows(matrix), c \in Cols(matrix) :
          OffMatching(r, c) /\ RetColBlock[c] < RetRowBlock[r]
    /\ \E r \in Rows(matrix), c \in Cols(matrix) :
          OffMatching(r, c) /\ RetColBlock[c] = RetRowBlock[r]

\* The rows and the columns of block b.
BlockRows(b) == {r \in Rows(matrix) : RetRowBlock[r] = b}
BlockCols(b) == {c \in Cols(matrix) : RetColBlock[c] = b}

\* Some row of block a references a column owned by block b.
BlockReferences(a, b) ==
    \E r \in BlockRows(a), c \in BlockCols(b) : <<r, c>> \in matrix.nz

(* C2 as stated: every index j listed for block b in the third returned    *)
(* value is a block solved before b (j < b), and some row of block b       *)
(* references a column owned by block j.                                   *)
C2_ListsDependencies ==
    Returned =>
        \A e \in BlockDagEdges :
            e[2] < e[1] /\ BlockReferences(e[1], e[2])

(* C2 amended: every index j listed for block b in the third returned      *)
(* value is a block solved after b (j > b), and some row of block j        *)
(* references a column owned by block b: the entry of b lists blocks that  *)
(* depend on b, not blocks that b depends on.                              *)
C2_ListsDependents ==
    Returned =>
        \A e \in BlockDagEdges :
            e[2] > e[1] /\ BlockReferences(e[2], e[1])

\* A 3 x 3 result of three blocks in which the first block lists both
\* other blocks.
C2_Witness ==
    /\ Returned
    /\ NRows = 3
    /\ Len(RetBlockDag) = 3
    /\ Len(RetBlockDag[1]) = 2
    /\ RetBlockDag[3] = <<>>

(* C3: acyclicity. The DAG of SCCs and the returned block structure have   *)
(* no directed cycle, the topological sort never raises, and a call with a *)
(* square matrix and a perfect matching never fails.                       *)
C3_Acyclic ==
    /\ pc \in {"topo_sort", "assemble", "invert", "returned"} => Acyclic(EdgesOf(dag))
    /\ Returned => Acyclic(BlockDagEdges)
    /\ Failed => exc.site # "topological_sort"
    /\ (Failed /\ NRows = NCols /\ PerfectMatching) => FALSE

\* A 3 x 3 result whose block structure is a chain of three blocks.
C3_Witness ==
    /\ Returned
    /\ NRows = 3
    /\ <<0, 1>> \in BlockDagEdges
    /\ <<1, 2>> \in BlockDagEdges
    /\ Cardinality(GEdges) >= 3

(* C4: totality. In every returned result row_block_map has exactly the    *)
(* keys 0..N-1 and col_block_map has exactly the keys 0..N-1, and every    *)
(* key is mapped to one block index of the block list.                     *)
C4_Totality ==
    Returned =>
        /\ DOMAIN RetRowBlock = 0..(NRows - 1)
        /\ DOMAIN RetColBlock = 0..(NCols - 1)
        /\ \A r \in DOMAIN RetRowBlock : RetRowBlock[r] \in 0..(Len(RetBlockDag) - 1)
        /\ \A c \in DOMAIN RetColBlock : RetColBlock[c] \in 0..(Len(RetBlockDag) - 1)

\* A 3 x 3 result with a matching computed by the provider that is not the
\* identity, and more than one block.
C4_Witness ==
    /\ Returned
    /\ NRows = 3
    /\ matching_arg.is_none
    /\ \E r \in Rows(matrix) : matching[r] # r
    /\ Len(RetBlockDag) = 2

(* C5: two rows have the same block index in row_block_map if and only if  *)
(* each is reachable from the other along directed edges of G.             *)
C5_BlocksAreSccs ==
    Returned =>
        \A r1, r2 \in Rows(matrix) :
            (RetRowBlock[r1] = RetRowBlock[r2])
                <=> (Reaches(GEdges, r1, r2) /\ Reaches(GEdges, r2, r1))

\* A 3 x 3 result where two rows share a block although one of them has no
\* edge to the other: it reaches the other through the third row only.
C5_Witness ==
    /\ Returned
    /\ NRows = 3
    /\ \E r1, r2 \in Rows(matrix) :
          /\ r1 # r2
          /\ RetRowBlock[r1] = RetRowBlock[r2]
          /\ ~GEdge(r1, r2)

(* C6: the returned partition is the finest. For every assignment p of     *)
(* block numbers to the rows (a column taking the number of its matched    *)
(* row) that is block-lower-triangular, two rows of one returned block     *)
(* have the same number under p.                                           *)
C6_Finest ==
    Returned =>
        \A p \in [Rows(matrix) -> 0..(NRows - 1)] :
            (\A u, v \in Rows(matrix) : GEdge(u, v) => p[v] <= p[u])
                => \A r1, r2 \in Rows(matrix) :
                      RetRowBlock[r1] = RetRowBlock[r2] => p[r1] = p[r2]

\* A 3 x 3 result with a block of two rows and a block of one row that are
\* joined by an entry: a coarser partition exists, a finer one does not.
C6_Witness ==
    /\ Returned
    /\ NRows = 3
    /\ Len(RetBlockDag) = 2
    /\ BlockDagEdges # {}
    /\ \E r \in Rows(matrix) : matching[r] # r

\* No local of the decomposition has been assigned.
NothingComputed ==
    /\ dg = Empty /\ scc_list = Empty /\ node_scc_map = Empty /\ dag = Empty
    /\ scc_order = Empty /\ scc_block_map = Empty /\ row_block_map = Empty
    /\ dag_ll = Empty /\ col_row_map = Empty /\ col_block_map = Empty

(* C7: non-square rejection. Once the shape check has run on a matrix      *)
(* whose row count differs from its column count, the call has failed with *)
(* the shape error, whatever the matching argument is; nothing has been    *)
(* computed and nothing is returned.                                       *)
C7_NonSquareRejected ==
    (NRows # NCols /\ pc \notin {"idle", "check_shape"}) =>
        /\ Failed
        /\ exc = Raise("shape")
        /\ bg = Empty
        /\ NothingComputed
        /\ ret = Empty
        /\ provider_calls = 0

\* A 2 x 3 matrix passed with a dict that has one entry per row is rejected.
C7_Witness ==
    /\ Failed
    /\ matrix.shape = <<2, 3>>
    /\ ~matching_arg.is_none
    /\ DictLen(matching_arg.items) = 2
    /\ exc.site = "shape"

(* C8: insufficient matching rejection. Once the cardinality check has run *)
(* on a square N x N matrix with a matching, supplied or computed by the   *)
(* provider, of fewer than N rows, the call has failed with the matching   *)
(* error and the directed graph of rows has not been built.                *)
C8_IncompleteMatchingRejected ==
    (/\ NRows = NCols
     /\ pc \notin {"idle", "check_shape", "get_matching", "check_matching"}
     /\ DictLen(matching) < NRows) =>
        /\ Failed
        /\ exc = Raise("matching")
        /\ NothingComputed
        /\ ret = Empty

\* A 3 x 3 matrix without a perfect matching, passed without a matching:
\* the provider returns two pairs and the call fails.
C8_Witness ==
    /\ Failed
    /\ NRows = 3 /\ NCols = 3
    /\ matching_arg.is_none
    /\ provider_calls = 1
    /\ DictLen(matching) = 2
    /\ exc.site = "matching"

\* The same for a supplied matching that misses a row.
C8_WitnessSupplied ==
    /\ Failed
    /\ NRows = 3 /\ NCols = 3
    /\ ~matching_arg.is_none
    /\ DictLen(matching) = 2
    /\ exc.site = "matching"

\* The three kinds of failure and the place that raises each.
FailureSites == {"shape", "matching", "assert"}

(* C9 as stated: the three kinds of failure (non-square shape, incomplete  *)
(* matching, internal consistency fault) reach the caller as distinct      *)
(* kinds: the class of the exception raised for one kind of failure is the *)
(* class of no other kind.                                                 *)
C9_DistinctKinds ==
    Failed =>
        \A other \in FailureSites \ {exc.site} : RaiseType[other] # exc.type

(* C9 amended: a non-square shape and an incomplete matching both reach    *)
(* the caller as a ValueError and differ in the message only; an internal  *)
(* consistency fault (a matching of N entries that is not one-to-one)      *)
(* reaches the caller as an AssertionError, which is neither of them.      *)
C9_KindsAsRaised ==
    Failed =>
        /\ exc.site \in FailureSites
        /\ exc.site = "shape" <=> NRows # NCols
        /\ exc.site = "matching" <=> (NRows = NCols /\ DictLen(matching) # NRows)
        /\ exc.site = "assert" <=>
              (NRows = NCols /\ DictLen(matching) = NRows /\ ~PerfectMatching)
        /\ exc.site \in {"shape", "matching"} <=> exc.type = "ValueError"
        /\ exc.site = "assert" <=> exc.type = "AssertionError"
        /\ \A other \in FailureSites \ {exc.site} : RaiseMsg[other] # exc.msg

\* A 3 x 3 call that fails on the assertion: the dict has three entries,
\* two of them with the same column.
C9_Witness ==
    /\ Failed
    /\ NRows = 3
    /\ exc.type = "AssertionError"
    /\ DictLen(matching) = 3
    /\ Cardinality(Range(matching)) = 2

(* C10: no partial result on failure. A call returns nothing until it      *)
(* returns the complete triple (a block for every row, a block for every   *)
(* column, one list per block), and a call that fails returns nothing,     *)
(* also when it fails after the row blocks have been computed.             *)
C10_NoPartialResult ==
    /\ ~Returned => ret = Empty
    /\ Failed => exc # NoExc
    /\ ~Failed => exc = NoExc
    /\ Returned =>
          /\ Len(ret) = 3
          /\ DOMAIN RetRowBlock = Rows(matrix)
          /\ DOMAIN RetColBlock = Cols(matrix)
          /\ Len(RetBlockDag) = Cardinality(Range(RetRowBlock))

\* A call that fails on the assertion after row_block_map and dag_ll were
\* computed: they are not returned.
C10_Witness ==
    /\ Failed
    /\ exc.site = "assert"
    /\ DOMAIN row_block_map = Rows(matrix)
    /\ Len(dag_ll) >= 2
    /\ ret = Empty

\* The call has ended, by a return or by an exception.
Terminated == Returned \/ Failed

\* The matrix is square with nonzeros exactly on the diagonal, and the
\* matching in use pairs row i with column i.
DiagonalWithIdentity ==
    /\ NRows = NCols
    /\ matrix.nz = {<<i, i>> : i \in Rows(matrix)}
    /\ matching = [r \in Rows(matrix) |-> r]

(* C11: identity case. A call on the N x N diagonal matrix with the        *)
(* identity matching returns N blocks of one row and one column each, and  *)
(* the list of every block is empty.                                       *)
C11_IdentityCase ==
    (Terminated /\ DiagonalWithIdentity) =>
        /\ Returned
        /\ Len(RetBlockDag) = NRows
        /\ \A b \in 1..Len(RetBlockDag) : RetBlockDag[b] = <<>>
        /\ \A r1, r2 \in Rows(matrix) : RetRowBlock[r1] = RetRowBlock[r2] => r1 = r2
        /\ \A c1, c2 \in Cols(matrix) : RetColBlock[c1] = RetColBlock[c2] => c1 = c2
        /\ \A b \in 0..(NRows - 1) : BlockRows(b) # {} /\ BlockCols(b) # {}

\* The 3 x 3 diagonal matrix passed with the identity matching has returned.
C11_Witness ==
    /\ Returned
    /\ NRows = 3
    /\ DiagonalWithIdentity
    /\ ~matching_arg.is_none
    /\ Len(RetBlockDag) = 3

\* The matrix is square with at least two rows and every entry nonzero.
FullyDense ==
    /\ NRows = NCols
    /\ NRows >= 2
    /\ matrix.nz = Rows(matrix) \X Cols(matrix)

(* C12: fully dense case. A call on the N x N matrix with every entry      *)
(* nonzero, N >= 2, and any perfect matching returns exactly one block,    *)
(* which holds all N rows and all N columns.                               *)
C12_FullyDenseCase ==
    (Terminated /\ FullyDense /\ PerfectMatching) =>
        /\ Returned
        /\ Len(RetBlockDag) = 1
        /\ RetBlockDag[1] = <<>>
        /\ \A r \in Rows(matrix) : RetRowBlock[r] = 0
        /\ \A c \in Cols(matrix) : RetColBlock[c] = 0

\* The 3 x 3 dense matrix passed with a matching that moves every row off
\* the diagonal has returned.
C12_Witness ==
    /\ Returned
    /\ NRows = 3
    /\ FullyDense
    /\ ~matching_arg.is_none
    /\ \A r \in Rows(matrix) : matching[r] # r

----------------------------------------------------------------------------
(* The already-block-triangular example: two dense 2 x 2 diagonal blocks   *)
(* on rows/columns {0,1} and {2,3}, and one more nonzero at (2, 1).        *)

BlockPairMatrix ==
    [shape |-> <<4, 4>>,
     nz |-> ({0, 1} \X {0, 1}) \cup ({2, 3} \X {2, 3}) \cup {<<2, 1>>}]

\* block_triangularize(BlockPairMatrix, matching) is called, with no
\* matching or with any dict of rows to columns.
CallBlockPair ==
    /\ pc = "idle"
    /\ UNCHANGED sched
    /\ \E ma \in MatchingArgs(BlockPairMatrix) :
          /\ matrix' = BlockPairMatrix
          /\ matching_arg' = ma
          /\ matching' = ma.items
    /\ pc' = "check_shape"
    /\ UNCHANGED <<provider_calls, locals, exc, ret>>

NextBlockPair ==
    \/ CallBlockPair
    \/ CheckShape
    \/ GetMatching
    \/ CheckMatching
    \/ BuildDg
    \/ FindSccs
    \/ Condense
    \/ TopoSort
    \/ Assemble
    \/ Invert

SpecBlockPair == Init /\ [][NextBlockPair]_vars

(* C13: already-block-triangular case. A call on the example with any      *)
(* perfect matching on nonzero entries returns exactly two blocks, and the *)
(* block of rows {0,1} has a strictly smaller index than the block of rows *)
(* {2,3}.                                                                  *)
C13_BlockPairCase ==
    (/\ Terminated
     /\ matrix = BlockPairMatrix
     /\ PerfectMatching
     /\ IsMatchingOf(matching, matrix)) =>
        /\ Returned
        /\ Len(RetBlockDag) = 2
        /\ BlockRows(0) = {0, 1}
        /\ BlockRows(1) = {2, 3}
        /\ RetRowBlock[0] < RetRowBlock[2]

\* The example has returned with a matching, computed by the provider,
\* that is not the identity in either block.
C13_Witness ==
    /\ Returned
    /\ matrix = BlockPairMatrix
    /\ matching_arg.is_none
    /\ matching[0] = 1
    /\ matching[2] = 3

----------------------------------------------------------------------------
(* Relabeling of rows and columns *)

\* The one-to-one maps of a set onto itself.
Bijections(S) == {f \in [S -> S] : \A x, y \in S : f[x] = f[y] => x = y}

\* The matrix with row r renamed sigma[r] and column c renamed tau[c].
RelabelMatrix(mx, sigma, tau) ==
    [shape |-> mx.shape, nz |-> {<<sigma[e[1]], tau[e[2]]>> : e \in mx.nz}]

\* The matching with the same renaming: sigma[r] is paired with tau[mt[r]].
RelabelMatching(mt, sigma, tau) ==
    [r2 \in {sigma[r] : r \in DOMAIN mt} |->
        tau[mt[CHOOSE r \in DOMAIN mt : sigma[r] = r2]]]

\* The edges b -> j of a list of lists of block indices.
DagEdgesOf(ll) ==
    {e \in (0..(Len(ll) - 1)) \X (0..(Len(ll) - 1)) : InSeq(e[2], ll[e[1] + 1])}

\* Result res2, computed for the relabeled arguments, is the result res1 up
\* to a renaming beta of the block indices: the rows and the columns are
\* grouped the same way and the blocks have the same edges.
IsomorphicResults(res1, res2, sigma, tau) ==
    /\ Len(res1[3]) = Len(res2[3])
    /\ \E beta \in Bijections(0..(Len(res1[3]) - 1)) :
          /\ \A r \in DOMAIN res1[1] : res2[1][sigma[r]] = beta[res1[1][r]]
          /\ \A c \in DOMAIN res1[2] : res2[2][tau[c]] = beta[res1[2][c]]
          /\ \A a, b \in 0..(Len(res1[3]) - 1) :
                <<a, b>> \in DagEdgesOf(res1[3])
                    <=> <<beta[a], beta[b]>> \in DagEdgesOf(res2[3])

(* C14: invariance under relabeling. When a call has returned, the call on *)
(* the matrix and matching with the rows renamed by any permutation and    *)
(* the columns by any permutation returns an isomorphic result: the same   *)
(* grouping of the original rows and columns into blocks and the same      *)
(* edges between blocks, up to a renaming of the block indices.            *)
C14_RelabelingInvariance ==
    Returned =>
        \A sigma \in Bijections(Rows(matrix)), tau \in Bijections(Cols(matrix)) :
            IsomorphicResults(
                ret,
                block_triangularize(RelabelMatrix(matrix, sigma, tau),
                                    RelabelMatching(matching, sigma, tau)),
                sigma, tau)

\* A 3 x 3 result of two blocks joined by an edge, one of them of two rows,
\* for which some relabeling exchanges the indices of the two blocks of a
\* row: the result of the relabeled call is not the same result renamed
\* row by row.
C14_Witness ==
    /\ Returned
    /\ NRows = 3
    /\ Len(RetBlockDag) >= 2
    /\ BlockDagEdges # {}
    /\ \E sigma \in Bijections(Rows(matrix)), tau \in Bijections(Cols(matrix)) :
          LET res2 == block_triangularize(RelabelMatrix(matrix, sigma, tau),
                                          RelabelMatching(matching, sigma, tau))
          IN  /\ \E r \in Rows(matrix) : sigma[r] # r
              /\ \E r \in Rows(matrix) : res2[1][r] # RetRowBlock[r]
              /\ res2[3] # RetBlockDag

(* C15: for every row r, col_block_map[match[r]] = row_block_map[r], and   *)
(* every block has as many columns as rows.                                *)
C15_ColumnsFollowRows ==
    Returned =>
        /\ \A r \in Rows(matrix) : RetColBlock[matching[r]] = RetRowBlock[r]
        /\ \A b \in 0..(Len(RetBlockDag) - 1) :
              Cardinality(BlockCols(b)) = Cardinality(BlockRows(b))

\* A 3 x 3 result of more than one block whose matching is a cycle of
\* length three, so the matching differs from its inverse.
C15_Witness ==
    /\ Returned
    /\ NRows = 3
    /\ Len(RetBlockDag) >= 2
    /\ \A r \in Rows(matrix) : matching[r] # r /\ matching[matching[r]] # r
    /\ \E b \in 0..(Len(RetBlockDag) - 1) : Cardinality(BlockRows(b)) = 2

\* The strongly connected components of G, by mutual reachability.
SccsOfG ==
    {{r2 \in Rows(matrix) : Reaches(GEdges, r, r2) /\ Reaches(GEdges, r2, r)} :
        r \in Rows(matrix)}

(* C16: block indices are dense and no block is empty. With B the number   *)
(* of strongly connected components of G, the values of row_block_map are  *)
(* exactly 0..B-1, the block DAG has B entries, and the SCC at position i  *)
(* of the topological order is block i.                                    *)
C16_DenseBlockIndices ==
    Returned =>
        LET B == Cardinality(SccsOfG)
        IN  /\ Range(RetRowBlock) = 0..(B - 1)
            /\ Len(RetBlockDag) = B
            /\ Len(scc_order) = B
            /\ \A i \in 0..(B - 1) :
                  /\ BlockRows(i) = scc_list[scc_order[i + 1] + 1]
                  /\ BlockRows(i) \in SccsOfG

\* A 3 x 3 result of three blocks in which the topological order is not
\* the order of scc_list.
C16_Witness ==
    /\ Returned
    /\ NRows = 3
    /\ Len(scc_order) = 3
    /\ \E i \in 1..3 : scc_order[i] # i - 1

\* The directed graph of rows has been built.
DgBuilt ==
    \/ pc \in {"find_sccs", "condense", "topo_sort", "assemble", "invert", "returned"}
    \/ Failed /\ exc.site \in {"topological_sort", "assert"}

(* C20: the graph G built from the matrix and the matching has one node    *)
(* per row and an edge u -> v if and only if u # v and row u is nonzero in *)
(* the column matched to row v; it has no self-loop and no edge twice.     *)
C20_RowGraph ==
    DgBuilt =>
        /\ DOMAIN dg = Rows(matrix)
        /\ \A u \in Rows(matrix) :
              /\ Range(dg[u]) \subseteq Rows(matrix)
              /\ \A v \in Rows(matrix) :
                    InSeq(v, dg[u]) <=> (u # v /\ <<u, matching[v]>> \in matrix.nz)
              /\ ~InSeq(u, dg[u])
              /\ Cardinality(Range(dg[u])) = Len(dg[u])

\* The graph of a 3 x 3 matrix with entries on the matching (which would
\* be self-loops) and with an edge 0 -> 1 whose reverse is no edge, for a
\* matching that is not the identity.
C20_Witness ==
    /\ pc = "find_sccs"
    /\ NRows = 3
    /\ \E r \in Rows(matrix) : matching[r] # r
    /\ \A r \in Rows(matrix) : <<r, matching[r]>> \in matrix.nz
    /\ InSeq(1, dg[0])
    /\ ~InSeq(0, dg[1])
    /\ Len(dg[2]) = 2

----------------------------------------------------------------------------
(* A sequential-modular executor driven by the returned block DAG *)

\* The blocks of the returned result.
AllBlocks == 0..(Len(RetBlockDag) - 1)

\* The executor may solve block b: it is not solved yet and every block
\* listed in its entry is.
CanSolve(b) ==
    /\ b \notin solved
    /\ \A k \in 1..Len(RetBlockDag[b + 1]) : RetBlockDag[b + 1][k] \in solved

\* The executor solves one block.
Solve ==
    /\ pc = "returned"
    /\ \E b \in AllBlocks :
          /\ CanSolve(b)
          /\ solved' = solved \cup {b}
    /\ UNCHANGED <<pc, matrix, matching_arg, matching, provider_calls, locals,
                   exc, ret, parked>>

NextExec ==
    \/ Call
    \/ CheckShape
    \/ GetMatching
    \/ CheckMatching
    \/ BuildDg
    \/ FindSccs
    \/ Condense
    \/ TopoSort
    \/ Assemble
    \/ Invert
    \/ Solve

\* The executor does not stop while it can solve a block.
SpecExec == Init /\ [][NextExec]_vars /\ WF_vars(Solve)

(* C17: an executor that solves one block at a time, and a block only once *)
(* every block listed in its entry of the returned block DAG is solved, is *)
(* never stuck while an unsolved block remains, and eventually has solved  *)
(* all B blocks.                                                           *)
C17_ExecutorCompletes ==
    /\ []((Returned /\ solved # AllBlocks) => \E b \in AllBlocks : CanSolve(b))
    /\ [](~Returned => solved = {})
    /\ (Returned ~> (Returned /\ solved = AllBlocks))

\* The executor has solved the three blocks of a chain, each of which had
\* to wait for the block listed in its entry.
C17_Witness ==
    /\ Returned
    /\ Len(RetBlockDag) = 3
    /\ Len(RetBlockDag[1]) >= 1
    /\ Len(RetBlockDag[2]) >= 1
    /\ solved = {0, 1, 2}

----------------------------------------------------------------------------
(* Two calls whose phases are interleaved. Every name the function assigns *)
(* is a local of the call (lines 34-107), so each call has its own frame;  *)
(* the variables hold the frame of the call that runs and parked holds the *)
(* frame of the call that does not.                                        *)

\* Largest number of rows and of columns of the matrices of two
\* interleaved calls.
MaxTwoN == 2

TwoCallMatrices ==
    UNION {{[shape |-> <<m, n>>, nz |-> z] :
              z \in SUBSET ((0..(m - 1)) \X (0..(n - 1)))} :
           m \in 1..MaxTwoN, n \in 1..MaxTwoN}

\* The frame of the running call.
Context ==
    [pc |-> pc, matrix |-> matrix, matching_arg |-> matching_arg,
     matching |-> matching, provider_calls |-> provider_calls, bg |-> bg,
     dg |-> dg, scc_list |-> scc_list, node_scc_map |-> node_scc_map,
     dag |-> dag, scc_order |-> scc_order, scc_block_map |-> scc_block_map,
     row_block_map |-> row_block_map, dag_ll |-> dag_ll,
     col_row_map |-> col_row_map, col_block_map |-> col_block_map,
     exc |-> exc, ret |-> ret]

\* One of the two calls is made.
CallTwo ==
    /\ pc = "idle"
    /\ UNCHANGED sched
    /\ \E mx \in TwoCallMatrices : \E ma \in MatchingArgs(mx) :
          /\ matrix' = mx
          /\ matching_arg' = ma
          /\ matching' = ma.items
    /\ pc' = "check_shape"
    /\ UNCHANGED <<provider_calls, locals, exc, ret>>

\* Switch with dag_ll a module-level list: the call that resumes finds the
\* list the other call left.
SwitchSharedDagLL ==
    /\ parked' = Context
    /\ pc' = parked.pc
    /\ matrix' = parked.matrix
    /\ matching_arg' = parked.matching_arg
    /\ matching' = parked.matching
    /\ provider_calls' = parked.provider_calls
    /\ bg' = parked.bg
    /\ dg' = parked.dg
    /\ scc_list' = parked.scc_list
    /\ node_scc_map' = parked.node_scc_map
    /\ dag' = parked.dag
    /\ scc_order' = parked.scc_order
    /\ scc_block_map' = parked.scc_block_map
    /\ row_block_map' = parked.row_block_map
    /\ dag_ll' = dag_ll
    /\ col_row_map' = parked.col_row_map
    /\ col_block_map' = parked.col_block_map
    /\ exc' = parked.exc
    /\ ret' = parked.ret
    /\ UNCHANGED solved

\* The running call is suspended between two phases and the other call
\* runs: the frames are exchanged.
Switch ==
    /\ parked' = Context
    /\ pc' = parked.pc
    /\ matrix' = parked.matrix
    /\ matching_arg' = parked.matching_arg
    /\ matching' = parked.matching
    /\ provider_calls' = parked.provider_calls
    /\ bg' = parked.bg
    /\ dg' = parked.dg
    /\ scc_list' = parked.scc_list
    /\ node_scc_map' = parked.node_scc_map
    /\ dag' = parked.dag
    /\ scc_order' = parked.scc_order
    /\ scc_block_map' = parked.scc_block_map
    /\ row_block_map' = parked.row_block_map
    /\ dag_ll' = parked.dag_ll
    /\ col_row_map' = parked.col_row_map
    /\ col_block_map' = parked.col_block_map
    /\ exc' = parked.exc
    /\ ret' = parked.ret
    /\ UNCHANGED solved

NextTwo ==
    \/ CallTwo
    \/ CheckShape
    \/ GetMatching
    \/ CheckMatching
    \/ BuildDg
    \/ FindSccs
    \/ Condense
    \/ TopoSort
    \/ Assemble
    \/ Invert
    \/ Switch

SpecTwo == Init /\ [][NextTwo]_vars

\* The two frames.
Frames == {Context, parked}

FrameTerminated(f) == f.pc \in {"returned", "raised"}

AloneOutcome(f) ==
    IF f.matrix.shape[1] # f.matrix.shape[2]
    THEN [exc |-> Raise("shape"), ret |-> Empty]
    ELSE IF DictLen(f.matching) # f.matrix.shape[1]
    THEN [exc |-> Raise("matching"), ret |-> Empty]
    ELSE IF \E r1, r2 \in DOMAIN f.matching :
                r1 # r2 /\ f.matching[r1] = f.matching[r2]
    THEN [exc |-> Raise("assert"), ret |-> Empty]
    ELSE [exc |-> NoExc, ret |-> block_triangularize(f.matrix, f.matching)]

\* The matching a call with the frame f uses when it runs alone: the one
\* passed, or one the provider returns for its matrix.
AloneMatching(f) ==
    IF f.matrix.shape[1] = f.matrix.shape[2] /\ f.matching_arg.is_none
    THEN f.matching \in maximum_matching(f.matrix) /\ f.provider_calls = 1
    ELSE f.matching = f.matching_arg.items /\ f.provider_calls = 0

(* C19: of two calls on independent arguments whose phases are interleaved *)
(* in any order, each ends exactly as it ends when run alone, and a call   *)
(* that has not started holds nothing of the other call.                   *)
C19_InterleavedCallsIndependent ==
    \A f \in Frames :
        /\ FrameTerminated(f) =>
              /\ f.exc = AloneOutcome(f).exc
              /\ f.ret = AloneOutcome(f).ret
              /\ AloneMatching(f)
        /\ f.pc = "idle" => f = IdleContext

\* Call 1 has returned while call 2, on another matrix, is suspended
\* before its last phase with another list of lists: the phases of call 2
\* are split around phases of call 1.
C19_Witness ==
    /\ Returned
    /\ parked.pc = "invert"
    /\ parked.matrix # matrix
    /\ parked.dag_ll # dag_ll
    /\ Len(parked.dag_ll) = 2
    /\ Len(dag_ll) = 2

----------------------------------------------------------------------------
(* The DAG of SCCs and the returned block DAG *)

\* The DAG of SCCs has been built.
DagBuilt ==
    \/ pc \in {"topo_sort", "assemble", "invert", "returned"}
    \/ Failed /\ exc.site \in {"topological_sort", "assert"}

\* dg has an edge from some row of component x to some row of component y
\* (indices into scc_list).
SccEdge(x, y) ==
    \E u \in scc_list[x + 1], v \in scc_list[y + 1] : InSeq(v, dg[u])

(* C21: the condensation DAG has one node per strongly connected component *)
(* of G and an edge from component Y to component X if and only if X # Y   *)
(* and G has an edge from some row of X to some row of Y, the direction of *)
(* G reversed; it has no self-edge and stores no edge twice.               *)
C21_CondensationDag ==
    DagBuilt =>
        /\ Range(scc_list) = SccsOfG
        /\ Len(scc_list) = Cardinality(SccsOfG)
        /\ DOMAIN dag = 0..(Len(scc_list) - 1)
        /\ \A x, y \in DOMAIN dag :
              InSeq(x, dag[y]) <=> (x # y /\ SccEdge(x, y))
        /\ \A x \in DOMAIN dag :
              /\ ~InSeq(x, dag[x])
              /\ Cardinality(Range(dag[x])) = Len(dag[x])

\* The DAG of a 3 x 3 matrix with a component of two rows and a component
\* of one row: G has two edges from the first into the second and none
\* back, and the DAG has the one reversed edge.
C21_Witness ==
    /\ pc = "topo_sort"
    /\ NRows = 3
    /\ Len(scc_list) = 2
    /\ \E x, y \in DOMAIN dag :
          /\ x # y
          /\ Cardinality(scc_list[x + 1]) = 2
          /\ \A u \in scc_list[x + 1], v \in scc_list[y + 1] : InSeq(v, dg[u])
          /\ dag[y] = <<x>>
          /\ dag[x] = <<>>

(* C22: the returned block DAG is the adjacency of the DAG of SCCs with    *)
(* every SCC renamed to its block index: block j is listed in the entry of *)
(* block i if and only if the DAG has an edge from the SCC numbered i to   *)
(* the SCC numbered j; no entry lists its own block or a block twice.      *)
C22_BlockDagIsRenumberedDag ==
    Returned =>
        /\ Len(RetBlockDag) = Cardinality(DOMAIN dag)
        /\ \A i, j \in 0..(Len(RetBlockDag) - 1) :
              InSeq(j, RetBlockDag[i + 1])
                  <=> InSeq(scc_order[j + 1], dag[scc_order[i + 1]])
        /\ \A c, e \in DOMAIN dag :
              InSeq(e, dag[c])
                  <=> InSeq(scc_block_map[e], RetBlockDag[scc_block_map[c] + 1])
        /\ \A i \in 0..(Len(RetBlockDag) - 1) :
              /\ ~InSeq(i, RetBlockDag[i + 1])
              /\ Cardinality(Range(RetBlockDag[i + 1])) = Len(RetBlockDag[i + 1])

\* A 3 x 3 result of three blocks whose topological order is not the order
\* of scc_list, so the renumbering changes an edge: the DAG has an edge
\* c -> e that the block DAG lists under other indices.
C22_Witness ==
    /\ Returned
    /\ NRows = 3
    /\ Len(RetBlockDag) = 3
    /\ \E c, e \in DOMAIN dag :
          /\ InSeq(e, dag[c])
          /\ <<scc_block_map[c], scc_block_map[e]>> # <<c, e>>
          /\ InSeq(scc_block_map[e], RetBlockDag[scc_block_map[c] + 1])

----------------------------------------------------------------------------
(* The order of the checks, the arguments, and the assertion *)

(* C23: order of the checks. The shape check comes before any use of the   *)
(* matching: on a non-square matrix the call fails with the shape error    *)
(* and the provider is not called, also when the matching passed is too    *)
(* small. The provider has been called, once, exactly when the matrix is   *)
(* square, no matching was passed, and lines 47-48 have run; when a        *)
(* matching was passed it is the one in use.                               *)
C23_CheckOrder ==
    /\ (NRows # NCols /\ pc \notin {"idle", "check_shape"}) =>
          /\ Failed
          /\ exc.site = "shape"
          /\ provider_calls = 0
    /\ provider_calls =
          IF /\ NRows = NCols
             /\ matching_arg.is_none
             /\ pc \notin {"idle", "check_shape", "get_matching"}
          THEN 1 ELSE 0
    /\ ~matching_arg.is_none => matching = matching_arg.items

\* A 3 x 2 matrix passed with a dict of one entry, too small for a matrix
\* of three rows, has failed with the shape error.
C23_Witness ==
    /\ Failed
    /\ matrix.shape = <<3, 2>>
    /\ ~matching_arg.is_none
    /\ DictLen(matching_arg.items) = 1
    /\ exc = Raise("shape")
    /\ provider_calls = 0

\* A square matrix passed with a matching that is too small has failed on
\* the matching, the provider not having been called.
C23_WitnessSupplied ==
    /\ Failed
    /\ NRows = 3 /\ NCols = 3
    /\ ~matching_arg.is_none
    /\ DictLen(matching_arg.items) = 1
    /\ exc.site = "matching"
    /\ provider_calls = 0

(* C24: the arguments are left as they were. From the call on, no step     *)
(* changes the matrix or the matching that was passed, whether the call    *)
(* returns or fails, and the local name matching stays bound to the dict   *)
(* that was passed.                                                        *)
C24_InputsUnchanged ==
    [][pc # "idle" =>
          /\ matrix' = matrix
          /\ matching_arg' = matching_arg
          /\ ~matching_arg.is_none => matching' = matching_arg.items]_vars

\* A call on a 3 x 3 matrix with entries and a matching of three entries
\* has returned, every phase having run on them.
C24_Witness ==
    /\ Returned
    /\ NRows = 3
    /\ matrix.nz # {}
    /\ ~matching_arg.is_none
    /\ DictLen(matching_arg.items) = 3
    /\ matching = matching_arg.items
    /\ DOMAIN col_row_map = Cols(matrix)

\* The same for a call that has failed on the assertion.
C24_WitnessFailed ==
    /\ Failed
    /\ exc.site = "assert"
    /\ NRows = 3
    /\ ~matching_arg.is_none
    /\ DictLen(matching_arg.items) = 3
    /\ matching = matching_arg.items

(* C27: a matching passed with exactly N entries, keyed by the rows        *)
(* 0..N-1, that sends two rows to one column passes the cardinality check, *)
(* and the call fails on the assertion about the inverted matching, an     *)
(* AssertionError, with nothing returned; for a matching that is a         *)
(* bijection the assertion holds and the call returns.                     *)
C27_NonInjectiveStopped ==
    /\ (/\ Terminated
        /\ NRows = NCols
        /\ DOMAIN matching = Rows(matrix)
        /\ ~PerfectMatching) =>
          /\ Failed
          /\ exc = Raise("assert")
          /\ exc.type = "AssertionError"
          /\ ret = Empty
          /\ DOMAIN dg = Rows(matrix)
          /\ DictLen(col_row_map) < NRows
    /\ (Terminated /\ NRows = NCols /\ PerfectMatching) =>
          /\ Returned
          /\ DictLen(col_row_map) = NRows

\* A 3 x 3 call with a dict that sends all three rows to one column has
\* passed the cardinality check and failed on the assertion.
C27_Witness ==
    /\ Failed
    /\ NRows = 3
    /\ ~matching_arg.is_none
    /\ DOMAIN matching = Rows(matrix)
    /\ Cardinality(Range(matching)) = 1
    /\ exc.site = "assert"
    /\ DOMAIN row_block_map = Rows(matrix)
    /\ DictLen(col_row_map) = 1

----------------------------------------------------------------------------
(* What the result depends on *)

\* The perfect matchings of a matrix: every row paired with a column it
\* references, no column paired twice.
PerfectMatchingsOf(mx) == {d \in [Rows(mx) -> Cols(mx)] : IsMatchingOf(d, mx)}

\* The identity renaming of 0..n-1.
Id(n) == [i \in 0..(n - 1) |-> i]

(* C25: independence of the matching. When a call on a square matrix has   *)
(* returned with a perfect matching on entries of the matrix, the call     *)
(* with any other such matching groups the rows into the same blocks and   *)
(* the columns into the same blocks, with the same edges between blocks;   *)
(* the block indices differ at most by a renaming that keeps those edges.  *)
C25_MatchingIndependence ==
    (Returned /\ IsMatchingOf(matching, matrix)) =>
        \A mt2 \in PerfectMatchingsOf(matrix) :
            LET res2 == block_triangularize(matrix, mt2)
            IN  /\ \A r1, r2 \in Rows(matrix) :
                      (RetRowBlock[r1] = RetRowBlock[r2])
                          <=> (res2[1][r1] = res2[1][r2])
                /\ \A c1, c2 \in Cols(matrix) :
                      (RetColBlock[c1] = RetColBlock[c2])
                          <=> (res2[2][c1] = res2[2][c2])
                /\ IsomorphicResults(ret, res2, Id(NRows), Id(NCols))

\* A 3 x 3 result of two blocks for a matrix that has another perfect
\* matching, which pairs the rows of the block of two with other columns.
C25_Witness ==
    /\ Returned
    /\ NRows = 3
    /\ IsMatchingOf(matching, matrix)
    /\ Len(RetBlockDag) = 2
    /\ BlockDagEdges # {}
    /\ \E mt2 \in PerfectMatchingsOf(matrix) :
          Cardinality({r \in Rows(matrix) : mt2[r] # matching[r]}) = 2

\* The positions the matching pairs.
MatchedPositions == {<<r, matching[r]>> : r \in DOMAIN matching}

(* C26: the entries at matched positions do not count. For a matching that *)
(* was passed, a call on a square matrix ends exactly as the call on any   *)
(* matrix that differs from it at positions (r, match[r]) only: the same   *)
(* row_block_map, col_block_map and block DAG, or the same failure. A      *)
(* bijection that pairs a row with a column the row does not reference is  *)
(* accepted and the call returns.                                          *)
C26_MatchedEntriesIgnored ==
    (Terminated /\ ~matching_arg.is_none /\ NRows = NCols) =>
        /\ \A Z \in SUBSET MatchedPositions :
              LET mx2 == [matrix EXCEPT !.nz = (@ \ MatchedPositions) \cup Z]
                  alone == AloneOutcome([matrix |-> mx2, matching |-> matching])
              IN  alone.ret = ret /\ alone.exc = exc
        /\ PerfectMatching => Returned

\* A 3 x 3 call has returned two blocks joined by an edge for a matching
\* that was passed and pairs a row with a column the row does not
\* reference.
C26_Witness ==
    /\ Returned
    /\ NRows = 3
    /\ ~matching_arg.is_none
    /\ \E r \in Rows(matrix) : <<r, matching[r]>> \notin matrix.nz
    /\ \E r \in Rows(matrix) : <<r, matching[r]>> \in matrix.nz
    /\ Len(RetBlockDag) >= 2
    /\ BlockDagEdges # {}
====
